---- MODULE Spec2Model ----
(***************************************************************************)
(* A model of learningPath.py: a Streamlit page that builds prompts from   *)
(* a user profile, sends them to the Gemini API (call_gemini), tracks      *)
(* progress over the returned learning path and runs a pomodoro countdown. *)
(*                                                                         *)
(* Python strings are sequences of one-character strings, so that strip,   *)
(* lower, startswith, split, join and substring search are computed.       *)
(* Python/JSON values are records [t |-> type, v |-> payload].             *)
(***************************************************************************)
EXTENDS Integers, Sequences, FiniteSets, TLC

VARIABLES
    secrets,        \* st.secrets: the keys of .streamlit/secrets.toml
    session_state,  \* st.session_state: key -> value, kept across script runs
    widgets,        \* the values of the input widgets, kept across script runs
    clicked,        \* the button whose click triggered the current script run
    offered,        \* the widgets rendered by the latest script run
    pc,             \* the position of the current script run
    sent,           \* the prompts POSTed by the current script run, in order
    tracker,        \* what the progress tracker last rendered
    exchange,       \* the outcome of the HTTP exchange a call_gemini call meets
    reply,          \* what that call_gemini call gave its caller
    timer           \* the locals of a running pomodoro_timer call

vars == <<secrets, session_state, widgets, clicked, offered, pc, sent, tracker,
          exchange, reply, timer>>

----------------------------------------------------------------------------
(* Python str methods, over sequences of characters *)

UpperCase == <<"A","B","C","D","E","F","G","H","I","J","K","L","M",
               "N","O","P","Q","R","S","T","U","V","W","X","Y","Z">>
LowerCase == <<"a","b","c","d","e","f","g","h","i","j","k","l","m",
               "n","o","p","q","r","s","t","u","v","w","x","y","z">>

\* the characters str.strip() removes
Whitespace == {" ", "\t", "\n", "\r", "\f"}

LowerChar(c) ==
    IF \E i \in 1..Len(UpperCase) : UpperCase[i] = c
    THEN LowerCase[CHOOSE i \in 1..Len(UpperCase) : UpperCase[i] = c]
    ELSE c

\* s.lower()
Lower(s) == [i \in 1..Len(s) |-> LowerChar(s[i])]

RECURSIVE LStrip(_)
LStrip(s) ==
    IF s # <<>> /\ Head(s) \in Whitespace THEN LStrip(Tail(s)) ELSE s

RECURSIVE RStrip(_)
RStrip(s) ==
    IF s # <<>> /\ s[Len(s)] \in Whitespace
    THEN RStrip(SubSeq(s, 1, Len(s) - 1))
    ELSE s

\* s.strip()
Strip(s) == RStrip(LStrip(s))

\* s.startswith(p)
StartsWith(s, p) == Len(s) >= Len(p) /\ SubSeq(s, 1, Len(p)) = p

\* sub in s
Contains(s, sub) ==
    \E i \in 0..(Len(s) - Len(sub)) : SubSeq(s, i + 1, i + Len(sub)) = sub

\* s.split(sep) for a one-character sep: always at least one piece
RECURSIVE SplitFrom(_, _, _)
SplitFrom(s, sep, cur) ==
    IF s = <<>> THEN <<cur>>
    ELSE IF Head(s) = sep THEN <<cur>> \o SplitFrom(Tail(s), sep, <<>>)
    ELSE SplitFrom(Tail(s), sep, Append(cur, Head(s)))

Split(s, sep) == SplitFrom(s, sep, <<>>)

\* sep.join(items)
RECURSIVE Join(_, _)
Join(sep, items) ==
    IF items = <<>> THEN <<>>
    ELSE IF Len(items) = 1 THEN items[1]
    ELSE items[1] \o sep \o Join(sep, Tail(items))

Digits == <<"0","1","2","3","4","5","6","7","8","9">>

\* str(n) for n >= 0, as the f-string renders an int
RECURSIVE StrOfInt(_)
StrOfInt(n) ==
    IF n < 10 THEN <<Digits[n + 1]>>
    ELSE Append(StrOfInt(n \div 10), Digits[(n % 10) + 1])

\* '{:02d}'.format(n) for n >= 0: zero-padded to at least two digits
Format02d(n) == IF n < 10 THEN <<"0">> \o StrOfInt(n) ELSE StrOfInt(n)

----------------------------------------------------------------------------
(* Python values: what response.json() yields and what expressions give *)

PyStr(s)   == [t |-> "str",  v |-> s]
PyNum(n)   == [t |-> "num",  v |-> <<n>>]
PyNone     == [t |-> "none", v |-> <<>>]
PyList(xs) == [t |-> "list", v |-> xs]
PyDict(f)  == [t |-> "dict", v |-> f]
\* an exception in flight instead of a value
Raised(e)  == [t |-> "raise", v |-> e]

EmptyDict == PyDict(<<>>)

\* x[key] for a string key
GetKey(x, key) ==
    IF x.t = "raise" THEN x
    ELSE IF x.t = "dict"
         THEN IF key \in DOMAIN x.v THEN x.v[key] ELSE Raised("KeyError")
         ELSE Raised("TypeError")

\* x[-1] in place of x[0]
GetLast(x) ==
    IF x.t = "raise" THEN x
    ELSE IF x.t = "list"
         THEN IF Len(x.v) > 0 THEN x.v[Len(x.v)] ELSE Raised("IndexError")
    ELSE IF x.t = "str"
         THEN IF Len(x.v) > 0 THEN PyStr(<<x.v[Len(x.v)]>>) ELSE Raised("IndexError")
    ELSE IF x.t = "dict" THEN Raised("KeyError")
    ELSE Raised("TypeError")

\* x[0]
GetFirst(x) ==
    IF x.t = "raise" THEN x
    ELSE IF x.t = "list"
         THEN IF Len(x.v) > 0 THEN x.v[1] ELSE Raised("IndexError")
    ELSE IF x.t = "str"
         THEN IF Len(x.v) > 0 THEN PyStr(<<x.v[1]>>) ELSE Raised("IndexError")
    ELSE IF x.t = "dict" THEN Raised("KeyError")
    ELSE Raised("TypeError")

----------------------------------------------------------------------------
(* call_gemini *)

\* the string call_gemini returns on failure
\* ("U+FE0F" stands for the variation selector after the warning sign)
\* '⚠ Gemini API call failed or returned unexpected response.'
Sentinel ==
    <<"⚠","U+FE0F"," ","G","e","m","i","n","i"," ","A","P","I"," ","c","a","l","l"," ","f","a","i",
      "l","e","d"," ","o","r"," ","r","e","t","u","r","n","e","d"," ","u","n","e","x","p","e",
      "c","t","e","d"," ","r","e","s","p","o","n","s","e",".">>

\* the value the try block reads: response.json()["candidates"][0]["content"]["parts"][0]["text"]
ExtractText(body) ==
    GetKey(GetFirst(GetKey(GetKey(GetFirst(GetKey(body, "candidates")),
                                  "content"), "parts")), "text")

\* call_gemini(prompt, api_key) when the HTTP exchange turns out as ex:
\* requests.post is outside the try block, so what it raises goes to the caller;
\* response.json() and the subscripts are inside it, and except Exception gives
\* the sentinel for whatever they raise
call_gemini(prompt, api_key, ex) ==
    IF ex.post = "raises" THEN Raised("ConnectionError")
    ELSE LET text == ExtractText(ex.body)
         IN  IF text.t = "raise" THEN PyStr(Sentinel) ELSE text

----------------------------------------------------------------------------
(* The outcomes of the HTTP exchange *)

\* 'Hello'
Hello ==
    <<"H","e","l","l","o">>
\* 'Other'
Other ==
    <<"O","t","h","e","r">>

TextValues == {PyStr(Hello), PyStr(<<>>), PyNone, PyNum(7)}

OtherPart == PyDict([text |-> PyStr(Other)])

PartValues ==
    {PyDict([text |-> x]) : x \in TextValues}
    \cup {EmptyDict, PyNone, PyStr(Hello), PyDict([inlineData |-> PyStr(Hello)])}

PartsValues ==
    {PyList(<<p>>) : p \in PartValues}
    \cup {PyList(<<p, OtherPart>>) : p \in PartValues}
    \cup {PyList(<<>>), PyNone, PyStr(Hello), EmptyDict}

ContentValues ==
    {PyDict([parts |-> ps]) : ps \in PartsValues}
    \cup {PyDict([parts |-> ps, role |-> PyStr(Other)]) : ps \in PartsValues}
    \cup {EmptyDict, PyNone, PyList(<<>>), PyStr(Hello)}

OtherCandidate ==
    PyDict([content |-> PyDict([parts |-> PyList(<<OtherPart>>)])])

CandidateValues ==
    {PyDict([content |-> c]) : c \in ContentValues}
    \cup {EmptyDict, PyNone, PyStr(Hello),
          PyDict([finishReason |-> PyStr(Other)])}

CandidatesValues ==
    {PyList(<<c>>) : c \in CandidateValues}
    \cup {PyList(<<c, OtherCandidate>>) : c \in CandidateValues}
    \cup {PyList(<<>>), PyNone, PyStr(Hello), EmptyDict}

\* what response.json() gives: a JSON value, or an exception for a body that is
\* not JSON
Bodies ==
    {PyDict([candidates |-> cs]) : cs \in CandidatesValues}
    \cup {EmptyDict, PyDict([error |-> PyDict([code |-> PyNum(400)])]),
          PyList(<<>>), PyNone, PyStr(Hello), Raised("JSONDecodeError")}

PostRaises == [post |-> "raises", body |-> PyNone]

Exchanges == {[post |-> "returns", body |-> b] : b \in Bodies} \cup {PostRaises}

NoReply == [t |-> "pending", v |-> <<>>]

----------------------------------------------------------------------------
(* The sidebar's options *)

\* 'Data Science'
DataScience ==
    <<"D","a","t","a"," ","S","c","i","e","n","c","e">>
\* 'UI/UX'
UIUX ==
    <<"U","I","/","U","X">>
\* 'Web Development'
WebDevelopment ==
    <<"W","e","b"," ","D","e","v","e","l","o","p","m","e","n","t">>
\* 'Cybersecurity'
Cybersecurity ==
    <<"C","y","b","e","r","s","e","c","u","r","i","t","y">>
\* 'AI/Machine Learning'
AIMachineLearning ==
    <<"A","I","/","M","a","c","h","i","n","e"," ","L","e","a","r","n","i","n","g">>
\* 'Beginner'
Beginner ==
    <<"B","e","g","i","n","n","e","r">>
\* 'Intermediate'
Intermediate ==
    <<"I","n","t","e","r","m","e","d","i","a","t","e">>
\* 'Advanced'
Advanced ==
    <<"A","d","v","a","n","c","e","d">>
\* 'Videos'
Videos ==
    <<"V","i","d","e","o","s">>
\* 'Articles'
Articles ==
    <<"A","r","t","i","c","l","e","s">>
\* 'Hands-on Projects'
HandsOnProjects ==
    <<"H","a","n","d","s","-","o","n"," ","P","r","o","j","e","c","t","s">>
\* 'Quizzes'
Quizzes ==
    <<"Q","u","i","z","z","e","s">>
\* 'Flashcards'
Flashcards ==
    <<"F","l","a","s","h","c","a","r","d","s">>

\* st.selectbox("Choose a topic", [...]); the first option is the default
Topics == <<DataScience, UIUX, WebDevelopment, Cybersecurity, AIMachineLearning>>

\* st.radio("Current Skill Level", [...]); the first option is the default
Levels == <<Beginner, Intermediate, Advanced>>

\* st.multiselect("Preferred learning style", [...]); nothing is selected by default
Styles == <<Videos, Articles, HandsOnProjects, Quizzes, Flashcards>>

\* st.slider("Study hours per week", 1, 40, 5)
MinHours == 1
MaxHours == 40
DefaultHours == 5

----------------------------------------------------------------------------
(* The prompt templates *)

\* 'Give me a short motivational quote for students fighting digital distractions.'
QuotePrompt ==
    <<"G","i","v","e"," ","m","e"," ","a"," ","s","h","o","r","t"," ","m","o","t","i","v","a",
      "t","i","o","n","a","l"," ","q","u","o","t","e"," ","f","o","r"," ","s","t","u","d","e",
      "n","t","s"," ","f","i","g","h","t","i","n","g"," ","d","i","g","i","t","a","l"," ","d",
      "i","s","t","r","a","c","t","i","o","n","s",".">>
\* "You are an expert mentor. Create a detailed, step-by-step '"
BaseA ==
    <<"Y","o","u"," ","a","r","e"," ","a","n"," ","e","x","p","e","r","t"," ","m","e","n","t",
      "o","r","."," ","C","r","e","a","t","e"," ","a"," ","d","e","t","a","i","l","e","d",",",
      " ","s","t","e","p","-","b","y","-","s","t","e","p"," ","'">>
\* "' learning path for a "
BaseB ==
    <<"'"," ","l","e","a","r","n","i","n","g"," ","p","a","t","h"," ","f","o","r"," ","a"," ">>
\* ' learner who can study '
BaseC ==
    <<" ","l","e","a","r","n","e","r"," ","w","h","o"," ","c","a","n"," ","s","t","u","d","y",
      " ">>
\* ' hrs/week. Preferred learning style(s): '
BaseD ==
    <<" ","h","r","s","/","w","e","e","k","."," ","P","r","e","f","e","r","r","e","d"," ","l",
      "e","a","r","n","i","n","g"," ","s","t","y","l","e","(","s",")",":"," ">>
\* '. Goal: '
BaseE ==
    <<"."," ","G","o","a","l",":"," ">>
\* '.\nFor each step/module, provide: 1) Name, 2) What to learn, 3) Curated resources (with 1-2 links), 4) Creative project ideas, 5) A checkpoint quiz (3 questions), and 6) Estimated time in weeks.Finish with an overall project idea and a motivational message.'
BaseF ==
    <<".","\n","F","o","r"," ","e","a","c","h"," ","s","t","e","p","/","m","o","d","u","l","e",
      ","," ","p","r","o","v","i","d","e",":"," ","1",")"," ","N","a","m","e",","," ","2",")",
      " ","W","h","a","t"," ","t","o"," ","l","e","a","r","n",","," ","3",")"," ","C","u","r",
      "a","t","e","d"," ","r","e","s","o","u","r","c","e","s"," ","(","w","i","t","h"," ","1",
      "-","2"," ","l","i","n","k","s",")",","," ","4",")"," ","C","r","e","a","t","i","v","e",
      " ","p","r","o","j","e","c","t"," ","i","d","e","a","s",","," ","5",")"," ","A"," ","c",
      "h","e","c","k","p","o","i","n","t"," ","q","u","i","z"," ","(","3"," ","q","u","e","s",
      "t","i","o","n","s",")",","," ","a","n","d"," ","6",")"," ","E","s","t","i","m","a","t",
      "e","d"," ","t","i","m","e"," ","i","n"," ","w","e","e","k","s",".","F","i","n","i","s",
      "h"," ","w","i","t","h"," ","a","n"," ","o","v","e","r","a","l","l"," ","p","r","o","j",
      "e","c","t"," ","i","d","e","a"," ","a","n","d"," ","a"," ","m","o","t","i","v","a","t",
      "i","o","n","a","l"," ","m","e","s","s","a","g","e",".">>
\* ', '
CommaSpace ==
    <<","," ">>
\* 'any'
AnyStyle ==
    <<"a","n","y">>
\* 'Just to learn'
JustToLearn ==
    <<"J","u","s","t"," ","t","o"," ","l","e","a","r","n">>
\* 'http'
Http ==
    <<"h","t","t","p">>
\* 'Summarize the following resource and suggest quiz questions: '
SummaryA ==
    <<"S","u","m","m","a","r","i","z","e"," ","t","h","e"," ","f","o","l","l","o","w","i","n",
      "g"," ","r","e","s","o","u","r","c","e"," ","a","n","d"," ","s","u","g","g","e","s","t",
      " ","q","u","i","z"," ","q","u","e","s","t","i","o","n","s",":"," ">>
\* 'Explain for a '
ExplainA ==
    <<"E","x","p","l","a","i","n"," ","f","o","r"," ","a"," ">>
\* ' '
Space ==
    <<" ">>
\* ' student: '
ExplainB ==
    <<" ","s","t","u","d","e","n","t",":"," ">>
\* 'Generate a creative, real-world project idea for a '
ProjectA ==
    <<"G","e","n","e","r","a","t","e"," ","a"," ","c","r","e","a","t","i","v","e",","," ","r",
      "e","a","l","-","w","o","r","l","d"," ","p","r","o","j","e","c","t"," ","i","d","e","a",
      " ","f","o","r"," ","a"," ">>
\* ' learner. Outline the project, key features, and how it helps master the topic. Make it fun and challenging.'
ProjectB ==
    <<" ","l","e","a","r","n","e","r","."," ","O","u","t","l","i","n","e"," ","t","h","e"," ",
      "p","r","o","j","e","c","t",","," ","k","e","y"," ","f","e","a","t","u","r","e","s",",",
      " ","a","n","d"," ","h","o","w"," ","i","t"," ","h","e","l","p","s"," ","m","a","s","t",
      "e","r"," ","t","h","e"," ","t","o","p","i","c","."," ","M","a","k","e"," ","i","t"," ",
      "f","u","n"," ","a","n","d"," ","c","h","a","l","l","e","n","g","i","n","g",".">>
\* 'Create a 5-question adaptive quiz for a '
QuizA ==
    <<"C","r","e","a","t","e"," ","a"," ","5","-","q","u","e","s","t","i","o","n"," ","a","d",
      "a","p","t","i","v","e"," ","q","u","i","z"," ","f","o","r"," ","a"," ">>
\* ' learner. Vary difficulty and include correct answers.'
QuizB ==
    <<" ","l","e","a","r","n","e","r","."," ","V","a","r","y"," ","d","i","f","f","i","c","u",
      "l","t","y"," ","a","n","d"," ","i","n","c","l","u","d","e"," ","c","o","r","r","e","c",
      "t"," ","a","n","s","w","e","r","s",".">>

\* base_prompt without the defaults for an empty style list and an empty goal
BasePromptNoDefaults(topic, level, hours, style, goal) ==
    BaseA \o topic \o BaseB \o level \o BaseC \o StrOfInt(hours) \o BaseD
    \o Join(CommaSpace, style) \o BaseE \o goal \o BaseF

\* base_prompt: an empty style list is rendered 'any', an empty goal 'Just to learn'
BasePrompt(topic, level, hours, style, goal) ==
    BaseA \o topic \o BaseB \o level \o BaseC \o StrOfInt(hours) \o BaseD
    \o (IF style # <<>> THEN Join(CommaSpace, style) ELSE AnyStyle)
    \o BaseE \o (IF goal # <<>> THEN goal ELSE JustToLearn) \o BaseF

\* "http" in question, in place of startswith
IsLinkAnywhere(question) == Contains(question, Http)

\* question.startswith("http")
IsLink(question) == StartsWith(question, Http)

\* the AI Buddy's prompt for a non-empty question
BuddyKind(question) == IF IsLink(question) THEN "ResourceSummary" ELSE "QA"

BuddyPrompt(level, topic, question) ==
    IF IsLink(question)
    THEN SummaryA \o question
    ELSE ExplainA \o level \o Space \o topic \o ExplainB \o question

\* if question:
AsksBuddy(question) == question # <<>>

\* project_prompt
ProjectPrompt(level, topic) ==
    ProjectA \o level \o Space \o topic \o ProjectB

\* quiz_prompt
QuizPrompt(level, topic) == QuizA \o level \o Space \o topic \o QuizB

\* one POST of call_gemini, as the run's record of it
Post(kind, prompt) == [kind |-> kind, prompt |-> prompt]

----------------------------------------------------------------------------
(* The progress tracker *)

\* 'step'
StepWord ==
    <<"s","t","e","p">>
\* 'module'
ModuleWord ==
    <<"m","o","d","u","l","e">>
\* 'Module '
ModuleSpace ==
    <<"M","o","d","u","l","e"," ">>
\* '\n'
Newline ==
    <<"\n">>

\* the test without strip()
IsModuleLineUnstripped(line) ==
    \/ StartsWith(Lower(line), StepWord)
    \/ StartsWith(Lower(line), ModuleWord)

\* line.strip().lower().startswith('step') or line.strip().lower().startswith('module')
IsModuleLine(line) ==
    \/ StartsWith(Lower(Strip(line)), StepWord)
    \/ StartsWith(Lower(Strip(line)), ModuleWord)

\* range(5) of the placeholder list
PlaceholderCount == 5

\* [f"Module {i+1}" for i in range(5)]
Placeholders == [i \in 1..PlaceholderCount |-> ModuleSpace \o StrOfInt((i - 1) + 1)]

\* the matching lines of the stored text, or the placeholders when there is none
ModulesOf(text) ==
    LET found == SelectSeq(Split(text, Newline[1]), IsModuleLine)
    IN  IF found = <<>> THEN Placeholders ELSE found

\* the selected options with an option that occurs twice counted once
RECURSIVE CompletedDistinct(_, _, _)
CompletedDistinct(modules, selection, i) ==
    IF i > Len(modules) THEN <<>>
    ELSE (IF /\ i \in selection
             /\ \A j \in 1..(i - 1) : j \in selection => modules[j] # modules[i]
          THEN <<modules[i]>>
          ELSE <<>>)
         \o CompletedDistinct(modules, selection, i + 1)

\* st.multiselect("Completed modules", modules): the browser holds the selected
\* options by position; the call returns them, here in the options' order
RECURSIVE CompletedOf(_, _, _)
CompletedOf(modules, selection, i) ==
    IF i > Len(modules) THEN <<>>
    ELSE (IF i \in selection THEN <<modules[i]>> ELSE <<>>)
         \o CompletedOf(modules, selection, i + 1)

RECURSIVE GCD(_, _)
GCD(a, b) == IF b = 0 THEN a ELSE GCD(b, a % b)

\* n / m for m > 0, as an exact fraction in lowest terms
Ratio(n, m) == <<n \div GCD(n, m), m \div GCD(n, m)>>

\* len(completed) / len(modules) if modules else 0
ProgressOf(completed, modules) ==
    IF modules # <<>> THEN Ratio(Len(completed), Len(modules)) ELSE <<0, 1>>

\* progress == 1
IsComplete(progress) == progress = <<1, 1>>

\* what the tracker section renders for a stored text and a selection
TrackerOf(text, selection) ==
    LET modules   == ModulesOf(text)
        completed == CompletedOf(modules, selection, 1)
        progress  == ProgressOf(completed, modules)
    IN  [shown |-> TRUE, text |-> text, modules |-> modules,
         completed |-> completed, progress |-> progress,
         congratulated |-> IsComplete(progress)]

NoTracker ==
    [shown |-> FALSE, text |-> <<>>, modules |-> <<>>, completed |-> <<>>,
     progress |-> <<0, 1>>, congratulated |-> FALSE]

----------------------------------------------------------------------------
(* st.session_state and st.secrets: mappings from keys to values *)

Empty == [k \in {} |-> TRUE]

\* d[key] = value
Store(d, key, value) == (key :> value) @@ d

\* d.get(key, default)
Get(d, key, default) == IF key \in DOMAIN d THEN d[key] ELSE default

----------------------------------------------------------------------------
(* pomodoro_timer *)

SecondsPerMinute == 60

\* ':'
Colon ==
    <<":">>
\* '25:00'
IdleDisplay ==
    <<"2","5",":","0","0">>
\* '00:00'
ZeroDisplay ==
    <<"0","0",":","0","0">>

\* '{:02d}:{:02d}'.format(mins, secs) for mins, secs = divmod(i, 60)
TimeFormat(i) ==
    Format02d(i \div SecondsPerMinute) \o Colon \o Format02d(i % SecondsPerMinute)

\* i is the loop variable, slept the number of time.sleep(1) calls made
NoTimer == [duration |-> 0, i |-> 0, slept |-> 0, return |-> "none"]

\* the call: timer_running is set and the loop variable starts at duration*60;
\* "return" is where the caller goes on
EnterTimer(ss, duration, return) ==
    [ss    |-> Store(ss, "timer_running", TRUE),
     timer |-> [duration |-> duration, i |-> duration * SecondsPerMinute,
                slept |-> 0, return |-> return]]

\* range(duration*60, 0, -1) has a next value
LoopRuns(t) == t.i > 0

\* the loop reading a key that no one writes
StopSeenWrongKey(ss) == Get(ss, "stop_timer", FALSE)

\* the loop body sees the stop flag and breaks
StopSeen(ss) == Get(ss, "timer_stop", FALSE)

\* one pass of the loop body that does not break: the display is written and
\* time.sleep(1) passes
TickBody(ss, t) ==
    [ss    |-> Store(ss, "timer_display", TimeFormat(t.i)),
     timer |-> [t EXCEPT !.i = t.i - 1, !.slept = t.slept + 1]]

\* the function's end without the reset of timer_running
ExitTimerDisplayOnly(ss) == Store(ss, "timer_display", ZeroDisplay)

\* after the loop
ExitTimer(ss) ==
    Store(Store(ss, "timer_running", FALSE), "timer_display", ZeroDisplay)

----------------------------------------------------------------------------
(* The script: one run per browser event, from the top *)

\* 'Step 1: ...\nOverview\nModule 2: ...\nResources\nGood luck!'
ExamplePath ==
    <<"S","t","e","p"," ","1",":"," ",".",".",".","\n","O","v","e","r","v","i","e","w","\n","M",
      "o","d","u","l","e"," ","2",":"," ",".",".",".","\n","R","e","s","o","u","r","c","e","s",
      "\n","G","o","o","d"," ","l","u","c","k","!">>
\* 'How do I start?'
HowDoIStart ==
    <<"H","o","w"," ","d","o"," ","I"," ","s","t","a","r","t","?">>
\* 'https://x.io'
HttpsLink ==
    <<"h","t","t","p","s",":","/","/","x",".","i","o">>
\* 'Get a job'
GetAJob ==
    <<"G","e","t"," ","a"," ","j","o","b">>

\* the positions where a run waits for the next browser event: after the last
\* line, after st.stop(), after an uncaught exception
Waiting == {"idle", "stopped", "aborted"}

Buttons == {"focus", "pomodoro", "stop", "motivation", "generate", "project", "quiz"}

\* pomodoro_timer(25)
PomodoroMinutes == 25

\* st.secrets.get("GEMINI_API_KEY", "")
ApiKey == Get(secrets, "GEMINI_API_KEY", "")

\* the key check without its st.stop()
AfterKeyCheckNoStop(key) == "sidebar"

\* if not api_key: st.error(...); st.stop()
AfterKeyCheck(key) == IF key = "" THEN "stopped" ELSE "sidebar"

DefaultWidgets ==
    [topic |-> Topics[1], level |-> Levels[1], hours |-> DefaultHours,
     style |-> <<>>, goal |-> <<>>, question |-> <<>>]

NoExchange == [post |-> "none", body |-> PyNone]

\* the exchanges the page's calls meet: a learning path, a body without
\* candidates, a null text, a transport error
AppExchanges ==
    {[post |-> "returns",
      body |-> PyDict([candidates |-> PyList(<<PyDict([content |->
                  PyDict([parts |-> PyList(<<PyDict([text |-> x])>>)])])>>)])]
        : x \in {PyStr(ExamplePath), PyNone}}
    \cup {[post |-> "returns", body |-> EmptyDict], PostRaises}

\* the profiles and questions the user of the page switches between
AppProfiles ==
    {[topic |-> Topics[1], level |-> Levels[1], hours |-> DefaultHours,
      style |-> <<>>, goal |-> <<>>],
     [topic |-> Topics[5], level |-> Levels[3], hours |-> MaxHours,
      style |-> <<Styles[1], Styles[4]>>, goal |-> GetAJob]}

AppQuestions == {<<>>, HowDoIStart, HttpsLink}

ProfileOf(w) ==
    [topic |-> w.topic, level |-> w.level, hours |-> w.hours,
     style |-> w.style, goal |-> w.goal]

WithProfile(w, p) ==
    [w EXCEPT !.topic = p.topic, !.level = p.level, !.hours = p.hours,
              !.style = p.style, !.goal = p.goal]

\* if key not in st.session_state: st.session_state[key] = value
Default(ss, key, value) == IF key \in DOMAIN ss THEN ss ELSE Store(ss, key, value)

\* st.multiselect keeps its selection only while its options stay the same
KeepsSelection(old, new) ==
    /\ old.t = "str"
    /\ new.t = "str"
    /\ ModulesOf(old.v) = ModulesOf(new.v)

\* a browser event starts a run: the script starts again from its first line
BeginRun(button) ==
    /\ pc \in Waiting
    /\ clicked' = button
    /\ pc' = "startup"
    /\ offered' = {}
    /\ sent' = <<>>
    /\ tracker' = NoTracker
    /\ exchange' = NoExchange
    /\ reply' = NoReply
    /\ timer' = NoTimer
    /\ UNCHANGED secrets

\* the user presses one of the buttons on the page
ClickButton ==
    \E b \in offered \cap Buttons :
        /\ BeginRun(b)
        /\ UNCHANGED <<session_state, widgets>>

\* the user changes one of the sidebar's inputs
EditProfile ==
    /\ "profile" \in offered
    /\ \E p \in AppProfiles \ {ProfileOf(widgets)} :
        widgets' = WithProfile(widgets, p)
    /\ BeginRun("none")
    /\ UNCHANGED session_state

\* the user submits the AI Buddy's text input
EditQuestion ==
    /\ "question" \in offered
    /\ \E q \in AppQuestions \ {widgets.question} :
        widgets' = [widgets EXCEPT !.question = q]
    /\ BeginRun("none")
    /\ UNCHANGED session_state

\* the user selects or deselects one of the tracker's modules
ToggleModule ==
    /\ "completed_modules" \in offered
    /\ \E i \in 1..Len(tracker.modules) :
        LET old == session_state["completed_modules"]
        IN  session_state' =
                Store(session_state, "completed_modules",
                      IF i \in old THEN old \ {i} ELSE old \cup {i})
    /\ BeginRun("none")
    /\ UNCHANGED widgets

\* the user reruns the page from its menu
Rerun ==
    /\ BeginRun("none")
    /\ UNCHANGED <<session_state, widgets>>

\* lines 38-48: page setup and the API key check
Startup ==
    /\ pc = "startup"
    /\ pc' = AfterKeyCheck(ApiKey)
    /\ UNCHANGED <<secrets, session_state, widgets, clicked, offered, sent,
                   tracker, exchange, reply, timer>>

\* lines 51-67: the profile inputs and the focus mode toggle
\* (the name input only registers its key: no handler reads the name)
Sidebar ==
    /\ pc = "sidebar"
    /\ offered' = offered \cup {"profile", "focus"}
    /\ LET named   == Default(session_state, "username", <<>>)
           started == Default(named, "focus_mode", FALSE)
       IN  session_state' =
               IF clicked = "focus"
               THEN Store(started, "focus_mode", ~started["focus_mode"])
               ELSE started
    /\ pc' = "pomodoro"
    /\ UNCHANGED <<secrets, widgets, clicked, sent, tracker, exchange, reply, timer>>

\* lines 70-77: the timer's defaults and the Start Pomodoro button, up to the
\* call of pomodoro_timer(25)
PomodoroSection ==
    /\ pc = "pomodoro"
    /\ offered' = offered \cup {"pomodoro"}
    /\ LET started == Default(Default(session_state, "timer_running", FALSE),
                              "timer_display", IdleDisplay)
           call    == EnterTimer(Store(started, "timer_stop", FALSE),
                                 PomodoroMinutes, "timer_shown")
       IN  IF clicked = "pomodoro"
           THEN /\ session_state' = call.ss
                /\ timer' = call.timer
                /\ pc' = "countdown"
           ELSE /\ session_state' = started
                /\ timer' = timer
                /\ pc' = "timer_shown"
    /\ UNCHANGED <<secrets, widgets, clicked, sent, tracker, exchange, reply>>

\* lines 27-33: one pass of the countdown loop that does not break
Tick ==
    /\ pc = "countdown"
    /\ LoopRuns(timer)
    /\ ~StopSeen(session_state)
    /\ session_state' = TickBody(session_state, timer).ss
    /\ timer' = TickBody(session_state, timer).timer
    /\ UNCHANGED <<secrets, widgets, clicked, offered, pc, sent, tracker,
                   exchange, reply>>

\* lines 28-29 and 34-35: the loop breaks or runs out, and pomodoro_timer returns
TimerReturn ==
    /\ pc = "countdown"
    /\ ~LoopRuns(timer) \/ StopSeen(session_state)
    /\ session_state' = ExitTimer(session_state)
    /\ pc' = timer.return
    /\ UNCHANGED <<secrets, widgets, clicked, offered, sent, tracker, exchange,
                   reply, timer>>

\* lines 78-81: the timer's display and, while timer_running, the Stop button
TimerShown ==
    /\ pc = "timer_shown"
    /\ offered' = IF session_state["timer_running"]
                  THEN offered \cup {"stop"}
                  ELSE offered
    /\ session_state' = IF session_state["timer_running"] /\ clicked = "stop"
                        THEN Store(session_state, "timer_stop", TRUE)
                        ELSE session_state
    /\ pc' = "motivation"
    /\ UNCHANGED <<secrets, widgets, clicked, sent, tracker, exchange, reply, timer>>

\* a handler's call of call_gemini: the POST is made, and what call_gemini
\* raises ends the run
Calls(kind, prompt, ex, next) ==
    /\ sent' = Append(sent, Post(kind, prompt))
    /\ exchange' = ex
    /\ reply' = call_gemini(prompt, ApiKey, ex)
    /\ pc' = IF call_gemini(prompt, ApiKey, ex).t = "raise" THEN "aborted" ELSE next

NoCall(next) ==
    /\ pc' = next
    /\ UNCHANGED <<sent, exchange, reply>>

\* lines 84-87: the Need Motivation button
Motivation ==
    /\ pc = "motivation"
    /\ offered' = offered \cup {"motivation"}
    /\ IF clicked = "motivation"
       THEN \E ex \in AppExchanges : Calls("Quote", QuotePrompt, ex, "generate")
       ELSE NoCall("generate")
    /\ UNCHANGED <<secrets, session_state, widgets, clicked, tracker, timer>>

\* lines 90-107: the Generate Learning Path button; the reply is stored as the
\* learning path
Generate ==
    /\ pc = "generate"
    /\ offered' = offered \cup {"generate"}
    /\ IF clicked = "generate"
       THEN \E ex \in AppExchanges :
               LET prompt == BasePrompt(widgets.topic, widgets.level, widgets.hours,
                                        widgets.style, widgets.goal)
                   plan   == call_gemini(prompt, ApiKey, ex)
                   kept   == /\ "learning_path" \in DOMAIN session_state
                             /\ KeepsSelection(session_state["learning_path"], plan)
                   stored == Store(Store(session_state, "learning_path", plan),
                                   "path_generated_at", "now")
               IN  /\ Calls("LearningPath", prompt, ex, "progress")
                   /\ session_state' =
                          IF plan.t = "raise" THEN session_state
                          ELSE IF kept \/ "completed_modules" \notin DOMAIN stored
                               THEN stored
                               ELSE Store(stored, "completed_modules", {})
       ELSE /\ NoCall("progress")
            /\ session_state' = session_state
    /\ UNCHANGED <<secrets, widgets, clicked, tracker, timer>>

\* lines 110-121: the progress tracker; a stored path that is no string has no
\* split method, and the AttributeError ends the run
Progress ==
    /\ pc = "progress"
    /\ IF "learning_path" \in DOMAIN session_state
       THEN IF session_state["learning_path"].t = "str"
            THEN LET chosen == Default(session_state, "completed_modules", {})
                 IN  /\ session_state' = chosen
                     /\ tracker' = TrackerOf(session_state["learning_path"].v,
                                             chosen["completed_modules"])
                     /\ offered' = offered \cup {"completed_modules"}
                     /\ pc' = "buddy"
            ELSE /\ pc' = "aborted"
                 /\ UNCHANGED <<session_state, tracker, offered>>
       ELSE /\ pc' = "buddy"
            /\ UNCHANGED <<session_state, tracker, offered>>
    /\ UNCHANGED <<secrets, widgets, clicked, sent, exchange, reply, timer>>

\* lines 124-133: the AI Study Buddy; a non-empty question is asked in every run
Buddy ==
    /\ pc = "buddy"
    /\ offered' = offered \cup {"question"}
    /\ IF AsksBuddy(widgets.question)
       THEN \E ex \in AppExchanges :
               Calls(BuddyKind(widgets.question),
                     BuddyPrompt(widgets.level, widgets.topic, widgets.question),
                     ex, "project")
       ELSE NoCall("project")
    /\ UNCHANGED <<secrets, session_state, widgets, clicked, tracker, timer>>

\* lines 136-143: the project idea button
Project ==
    /\ pc = "project"
    /\ offered' = offered \cup {"project"}
    /\ IF clicked = "project"
       THEN \E ex \in AppExchanges :
               Calls("ProjectIdea", ProjectPrompt(widgets.level, widgets.topic),
                     ex, "quiz")
       ELSE NoCall("quiz")
    /\ UNCHANGED <<secrets, session_state, widgets, clicked, tracker, timer>>

\* lines 146-164: the quiz button, and the rest of the page
Quiz ==
    /\ pc = "quiz"
    /\ offered' = offered \cup {"quiz"}
    /\ IF clicked = "quiz"
       THEN \E ex \in AppExchanges :
               Calls("Quiz", QuizPrompt(widgets.level, widgets.topic), ex, "idle")
       ELSE NoCall("idle")
    /\ UNCHANGED <<secrets, session_state, widgets, clicked, tracker, timer>>

\* the secrets file: without the key, with an empty key, with a key
SecretsFiles ==
    {[OTHER_KEY |-> "xxx"], [GEMINI_API_KEY |-> ""], [GEMINI_API_KEY |-> "xxx"]}

Init ==
    /\ secrets \in SecretsFiles
    /\ session_state = Empty
    /\ widgets = DefaultWidgets
    /\ clicked = "none"
    /\ offered = {}
    /\ pc = "startup"
    /\ sent = <<>>
    /\ tracker = NoTracker
    /\ exchange = NoExchange
    /\ reply = NoReply
    /\ timer = NoTimer

Next ==
    \/ ClickButton
    \/ EditProfile
    \/ EditQuestion
    \/ ToggleModule
    \/ Rerun
    \/ Startup
    \/ Sidebar
    \/ PomodoroSection
    \/ Tick
    \/ TimerReturn
    \/ TimerShown
    \/ Motivation
    \/ Generate
    \/ Progress
    \/ Buddy
    \/ Project
    \/ Quiz

Spec == Init /\ [][Next]_vars

----------------------------------------------------------------------------
(* call_gemini on its own, over the outcomes of the exchange *)

IdleRest ==
    /\ secrets = [GEMINI_API_KEY |-> "xxx"]
    /\ clicked = "none"
    /\ offered = {}
    /\ sent = <<>>

InitClient ==
    /\ IdleRest
    /\ session_state = Empty
    /\ widgets = DefaultWidgets
    /\ tracker = NoTracker
    /\ timer = NoTimer
    /\ pc = "call"
    /\ exchange \in Exchanges
    /\ reply = NoReply

\* a caller's call_gemini(prompt, api_key)
CallGemini ==
    /\ pc = "call"
    /\ reply' = call_gemini(QuotePrompt, ApiKey, exchange)
    /\ pc' = IF call_gemini(QuotePrompt, ApiKey, exchange).t = "raise"
             THEN "raised"
             ELSE "returned"
    /\ UNCHANGED <<secrets, session_state, widgets, clicked, offered, sent,
                   tracker, exchange, timer>>

\* the next call meets another exchange
NextCall ==
    /\ pc \in {"raised", "returned"}
    /\ exchange' \in Exchanges
    /\ reply' = NoReply
    /\ pc' = "call"
    /\ UNCHANGED <<secrets, session_state, widgets, clicked, offered, sent,
                   tracker, timer>>

NextClient == CallGemini \/ NextCall

ClientSpec == InitClient /\ [][NextClient]_vars

----------------------------------------------------------------------------
(* The prompt builders on their own, over the profile and the question *)

\* the most styles the user selects
MaxStyles == 1

\* 'http'
HttpOnly ==
    <<"h","t","t","p">>
\* 'htt'
Htt ==
    <<"h","t","t">>
\* 'HTTP://X.IO'
UpperLink ==
    <<"H","T","T","P",":","/","/","X",".","I","O">>
\* ' http://x.io'
SpaceLink ==
    <<" ","h","t","t","p",":","/","/","x",".","i","o">>

HoursChoices == {MinHours, DefaultHours, MaxHours}

\* the selected styles, in the order the user selected them
Selections(n) ==
    {g \in [1..n -> 1..Len(Styles)] : \A i, j \in 1..n : i # j => g[i] # g[j]}

StyleChoices ==
    UNION {{[i \in 1..n |-> Styles[g[i]]] : g \in Selections(n)} : n \in 0..MaxStyles}

GoalChoices == {<<>>, GetAJob}

QuestionChoices ==
    {<<>>, HttpOnly, HttpsLink, HowDoIStart, Htt, UpperLink, SpaceLink}

InitPrompt ==
    /\ IdleRest
    /\ session_state = Empty
    /\ widgets = DefaultWidgets
    /\ tracker = NoTracker
    /\ timer = NoTimer
    /\ exchange = NoExchange
    /\ reply = NoReply
    /\ pc = "inputs"

\* the user changes one input
EditWidgets ==
    /\ \/ \E i \in 1..Len(Topics) : widgets' = [widgets EXCEPT !.topic = Topics[i]]
       \/ \E i \in 1..Len(Levels) : widgets' = [widgets EXCEPT !.level = Levels[i]]
       \/ \E h \in HoursChoices : widgets' = [widgets EXCEPT !.hours = h]
       \/ \E st \in StyleChoices : widgets' = [widgets EXCEPT !.style = st]
       \/ \E g \in GoalChoices : widgets' = [widgets EXCEPT !.goal = g]
       \/ \E q \in QuestionChoices : widgets' = [widgets EXCEPT !.question = q]
    /\ sent' = <<>>
    /\ pc' = "inputs"
    /\ UNCHANGED <<secrets, session_state, clicked, offered, tracker, exchange,
                   reply, timer>>

\* a handler builds its prompt from the inputs and posts it
Builds(handler, posts) ==
    /\ sent' = posts
    /\ pc' = handler
    /\ UNCHANGED <<secrets, session_state, widgets, clicked, offered, tracker,
                   exchange, reply, timer>>

BuildQuote == Builds("motivation", <<Post("Quote", QuotePrompt)>>)

BuildLearningPath ==
    Builds("generate",
           <<Post("LearningPath",
                  BasePrompt(widgets.topic, widgets.level, widgets.hours,
                             widgets.style, widgets.goal))>>)

BuildBuddy ==
    Builds("buddy",
           IF AsksBuddy(widgets.question)
           THEN <<Post(BuddyKind(widgets.question),
                       BuddyPrompt(widgets.level, widgets.topic, widgets.question))>>
           ELSE <<>>)

BuildProject ==
    Builds("project", <<Post("ProjectIdea", ProjectPrompt(widgets.level, widgets.topic))>>)

BuildQuiz ==
    Builds("quiz", <<Post("Quiz", QuizPrompt(widgets.level, widgets.topic))>>)

NextPrompt ==
    \/ EditWidgets
    \/ BuildQuote
    \/ BuildLearningPath
    \/ BuildBuddy
    \/ BuildProject
    \/ BuildQuiz

PromptSpec == InitPrompt /\ [][NextPrompt]_vars

----------------------------------------------------------------------------
(* The progress tracker on its own, over the stored text and the selection *)

\* the most lines of a generated text
MaxLines == 3

\* 'Step 1: ...'
LineStep ==
    <<"S","t","e","p"," ","1",":"," ",".",".",".">>
\* 'Module 2: ...'
LineModule ==
    <<"M","o","d","u","l","e"," ","2",":"," ",".",".",".">>
\* '  STEP 3\r'
LineUpperStep ==
    <<" "," ","S","T","E","P"," ","3","\r">>
\* '\tmodule'
LineTabModule ==
    <<"\t","m","o","d","u","l","e">>
\* '## Step 5'
LineHeading ==
    <<"#","#"," ","S","t","e","p"," ","5">>
\* 'Ste'
LineSte ==
    <<"S","t","e">>
\* 'Intro'
LineIntro ==
    <<"I","n","t","r","o">>

LineChoices ==
    {LineStep, LineModule, LineUpperStep, LineTabModule, LineHeading, LineSte,
     LineIntro, <<>>}

\* the texts of up to MaxLines lines, and two longer ones: the example path and
\* call_gemini's failure string
PathTexts ==
    UNION {{Join(Newline, ls) : ls \in [1..n -> LineChoices]} : n \in 1..MaxLines}
    \cup {ExamplePath, Sentinel}

InitProgress ==
    /\ IdleRest
    /\ widgets = DefaultWidgets
    /\ tracker = NoTracker
    /\ timer = NoTimer
    /\ exchange = NoExchange
    /\ reply = NoReply
    /\ pc = "progress"
    /\ \E text \in PathTexts :
        session_state = [learning_path |-> PyStr(text), completed_modules |-> {}]

\* the user selects or deselects a module, and the tracker is rendered again
Reselect ==
    /\ pc = "buddy"
    /\ \E i \in 1..Len(tracker.modules) :
        LET old == session_state["completed_modules"]
        IN  session_state' =
                Store(session_state, "completed_modules",
                      IF i \in old THEN old \ {i} ELSE old \cup {i})
    /\ pc' = "progress"
    /\ tracker' = NoTracker
    /\ offered' = {}
    /\ UNCHANGED <<secrets, widgets, clicked, sent, exchange, reply, timer>>

NextProgress == Progress \/ Reselect

ProgressSpec == InitProgress /\ [][NextProgress]_vars

----------------------------------------------------------------------------
(* pomodoro_timer on its own, with a stop request arriving during the countdown *)

\* the longest countdown, in minutes
MaxMinutes == 1

InitTimer ==
    /\ IdleRest
    /\ widgets = DefaultWidgets
    /\ tracker = NoTracker
    /\ exchange = NoExchange
    /\ reply = NoReply
    /\ pc = "timer_call"
    /\ \E d \in 0..MaxMinutes : timer = [NoTimer EXCEPT !.duration = d]
    /\ \E ss \in {[timer_running |-> FALSE, timer_display |-> IdleDisplay]} :
        \/ session_state = ss
        \/ session_state = Store(ss, "timer_stop", FALSE)
        \/ session_state = Store(ss, "timer_stop", TRUE)

\* pomodoro_timer(duration) is called
TimerCall ==
    /\ pc = "timer_call"
    /\ session_state' = EnterTimer(session_state, timer.duration, "timer_returned").ss
    /\ timer' = EnterTimer(session_state, timer.duration, "timer_returned").timer
    /\ pc' = "countdown"
    /\ UNCHANGED <<secrets, widgets, clicked, offered, sent, tracker, exchange, reply>>

\* line 81 while the countdown sleeps: st.session_state['timer_stop'] = True
RequestStop ==
    /\ pc = "countdown"
    /\ ~Get(session_state, "timer_stop", FALSE)
    /\ session_state' = Store(session_state, "timer_stop", TRUE)
    /\ UNCHANGED <<secrets, widgets, clicked, offered, pc, sent, tracker, exchange,
                   reply, timer>>

NextTimer == TimerCall \/ Tick \/ TimerReturn \/ RequestStop

\* the countdown is sequential code: it goes on until it returns
TimerSpec ==
    InitTimer /\ [][NextTimer]_vars /\ WF_vars(TimerCall \/ Tick \/ TimerReturn)

----------------------------------------------------------------------------
(* The claims about call_gemini, under ClientSpec *)

\* the body has the shape candidates[0].content.parts[0].text
HasTextShape(b) ==
    /\ b.t = "dict"
    /\ "candidates" \in DOMAIN b.v
    /\ b.v["candidates"].t = "list"
    /\ Len(b.v["candidates"].v) >= 1
    /\ LET c == b.v["candidates"].v[1]
       IN  /\ c.t = "dict"
           /\ "content" \in DOMAIN c.v
           /\ c.v["content"].t = "dict"
           /\ "parts" \in DOMAIN c.v["content"].v
           /\ c.v["content"].v["parts"].t = "list"
           /\ Len(c.v["content"].v["parts"].v) >= 1
           /\ c.v["content"].v["parts"].v[1].t = "dict"
           /\ "text" \in DOMAIN c.v["content"].v["parts"].v[1].v

FirstText(b) == b.v["candidates"].v[1].v["content"].v["parts"].v[1].v["text"]

\* C1: whatever the outcome of the HTTP exchange, a transport error of the POST
\* included, call_gemini returns, and returns the failure string when the
\* exchange failed; no exception reaches the caller
C1_NoExceptionEscapes ==
    pc \in {"raised", "returned"} =>
        /\ pc = "returned"
        /\ reply.t # "raise"
        /\ (exchange.post = "raises" \/ ~HasTextShape(exchange.body))
               => reply = PyStr(Sentinel)

----------------------------------------------------------------------------
(* The claims about the script's runs, under Spec *)

\* C3: a run, whichever user action started it, makes at most one POST
C3_AtMostOnePostPerRun == Len(sent) <= 1

\* C4: without a GEMINI_API_KEY, or with an empty one, a run stops at the key
\* check: no POST is made, no session_state key is written, no input is rendered
C4_MissingKeyHalts ==
    ("GEMINI_API_KEY" \notin DOMAIN secrets \/ secrets["GEMINI_API_KEY"] = "") =>
        /\ pc \in {"startup", "stopped"}
        /\ sent = <<>>
        /\ DOMAIN session_state = {}
        /\ offered = {}

\* a run without the key has stopped at the check
C4_Witness == "GEMINI_API_KEY" \notin DOMAIN secrets /\ pc = "stopped"

\* C10: timer_running is False whenever the Stop button's guard is evaluated, so
\* the button is never rendered nor pressed, and timer_stop is never True, during
\* a countdown (where Start has set it to False) or otherwise
C10_StopNeverOffered ==
    /\ pc = "timer_shown" => session_state["timer_running"] = FALSE
    /\ "stop" \notin offered
    /\ clicked # "stop"
    /\ "timer_stop" \in DOMAIN session_state => session_state["timer_stop"] = FALSE
    /\ pc = "countdown" =>
           /\ "timer_stop" \in DOMAIN session_state
           /\ session_state["timer_running"] = TRUE

\* the Stop button's guard is evaluated right after a full countdown
C10_Witness ==
    /\ pc = "timer_shown"
    /\ clicked = "pomodoro"
    /\ timer.slept = PomodoroMinutes * SecondsPerMinute

----------------------------------------------------------------------------
(* The claims about the progress tracker, under ProgressSpec *)

Selected == session_state["completed_modules"]

\* C5: the congratulations are shown exactly when completed / total is 1; the
\* ratio is 1 when every module is selected, duplicate lines and the five
\* placeholders included, and no selection short of all modules is congratulated
C5_CompleteOnlyAtOne ==
    tracker.shown =>
        /\ tracker.progress[1] * Len(tracker.modules)
               = tracker.progress[2] * Cardinality(Selected)
        /\ tracker.congratulated <=> tracker.progress = <<1, 1>>
        /\ Selected = 1..Len(tracker.modules) => tracker.progress = <<1, 1>>
        /\ Selected # 1..Len(tracker.modules) => ~tracker.congratulated

\* all modules of a list that holds the same line twice are selected
C5_Witness ==
    /\ tracker.shown
    /\ tracker.congratulated
    /\ Len(tracker.modules) >= 2
    /\ tracker.modules[1] = tracker.modules[2]

\* the line, after its leading whitespace, spells the word in either case
SpellsAfterBlanks(line, lower, upper) ==
    \E k \in 0..Len(line) :
        /\ \A j \in 1..k : line[j] \in Whitespace
        /\ Len(line) >= k + Len(lower)
        /\ \A j \in 1..Len(lower) : line[k + j] \in {lower[j], upper[j]}

MarkerLine(line) ==
    \/ SpellsAfterBlanks(line, <<"s","t","e","p">>, <<"S","T","E","P">>)
    \/ SpellsAfterBlanks(line, <<"m","o","d","u","l","e">>, <<"M","O","D","U","L","E">>)

\* the position after the line that starts at p: its line feed, or the text's end
LineEnd(text, p) ==
    CHOOSE e \in p..(Len(text) + 1) :
        /\ e = Len(text) + 1 \/ text[e] = "\n"
        /\ \A j \in p..(e - 1) : text[j] # "\n"

\* the marker lines of the text from position p on, in their order
RECURSIVE MarkerLinesFrom(_, _)
MarkerLinesFrom(text, p) ==
    IF p > Len(text) + 1 THEN <<>>
    ELSE LET e    == LineEnd(text, p)
             line == SubSeq(text, p, e - 1)
         IN  (IF MarkerLine(line) THEN <<line>> ELSE <<>>)
             \o MarkerLinesFrom(text, e + 1)

FivePlaceholders ==
    <<<<"M","o","d","u","l","e"," ","1">>,
      <<"M","o","d","u","l","e"," ","2">>,
      <<"M","o","d","u","l","e"," ","3">>,
      <<"M","o","d","u","l","e"," ","4">>,
      <<"M","o","d","u","l","e"," ","5">>>>

\* C6: the module list is the text's lines whose trimmed, lowercased form starts
\* with "step" or "module", in their order (two for the example path); when no
\* line matches, as for the failure string, it is "Module 1".."Module 5"; it is
\* never empty
C6_MarkerLinesOrPlaceholders ==
    tracker.shown =>
        /\ tracker.text = session_state["learning_path"].v
        /\ tracker.modules =
               IF MarkerLinesFrom(tracker.text, 1) = <<>>
               THEN FivePlaceholders
               ELSE MarkerLinesFrom(tracker.text, 1)
        /\ tracker.modules # <<>>
        /\ tracker.text = ExamplePath => tracker.modules = <<LineStep, LineModule>>
        /\ tracker.text = Sentinel => tracker.modules = FivePlaceholders

\* the example path, with its five lines, gave two modules
C6_Witness ==
    /\ tracker.shown
    /\ tracker.text = ExamplePath
    /\ Len(Split(ExamplePath, "\n")) = 5
    /\ Len(tracker.modules) = 2

----------------------------------------------------------------------------
(* The claims about the prompts, under PromptSpec *)

BeginsWithHttp(q) ==
    Len(q) >= 4 /\ q[1] = "h" /\ q[2] = "t" /\ q[3] = "t" /\ q[4] = "p"

EndsWith(str, suffix) ==
    /\ Len(str) >= Len(suffix)
    /\ SubSeq(str, Len(str) - Len(suffix) + 1, Len(str)) = suffix

\* C7: a non-empty question is sent with the resource summary template exactly
\* when it begins with "http", the bare "http" included, and with the question
\* and answer template otherwise; an empty question sends nothing
C7_HttpPrefixRoutes ==
    pc = "buddy" =>
        IF widgets.question = <<>>
        THEN sent = <<>>
        ELSE /\ Len(sent) = 1
             /\ EndsWith(sent[1].prompt, widgets.question)
             /\ IF BeginsWithHttp(widgets.question)
                THEN /\ sent[1].kind = "ResourceSummary"
                     /\ sent[1].prompt = SummaryA \o widgets.question
                ELSE /\ sent[1].kind = "QA"
                     /\ StartsWith(sent[1].prompt, ExplainA)
                     /\ ~StartsWith(sent[1].prompt, SummaryA)

\* the bare question "http" was sent with the resource summary template
C7_Witness ==
    /\ pc = "buddy"
    /\ widgets.question = <<"h","t","t","p">>
    /\ sent = <<Post("ResourceSummary", SummaryA \o <<"h","t","t","p">>)>>

NamesProfile(prompt) ==
    /\ Contains(prompt, widgets.topic)
    /\ Contains(prompt, widgets.level)
    /\ Contains(prompt, StrOfInt(widgets.hours))

\* C8, as claimed: every one of the six templates gives a non-empty prompt that
\* contains the topic, the level and the hours
C8_EveryPromptNamesProfile ==
    \A i \in 1..Len(sent) : sent[i].prompt # <<>> /\ NamesProfile(sent[i].prompt)

\* 'Preferred learning style(s): any. '
StyleAny ==
    <<"P","r","e","f","e","r","r","e","d"," ","l","e","a","r","n","i","n","g"," ","s","t","y",
      "l","e","(","s",")",":"," ","a","n","y","."," ">>
\* 'Goal: Just to learn.\n'
GoalJustToLearn ==
    <<"G","o","a","l",":"," ","J","u","s","t"," ","t","o"," ","l","e","a","r","n",".","\n">>

\* C8, amended: every template gives a non-empty prompt; the learning path prompt
\* contains the topic, the level and the hours, with "any" for no style and
\* "Just to learn" for no goal; the question and answer, project and quiz prompts
\* contain the topic and the level; the quote prompt is a fixed text and the
\* resource summary prompt contains the question
C8_PromptsNameWhatTheyUse ==
    \A i \in 1..Len(sent) :
        LET kind   == sent[i].kind
            prompt == sent[i].prompt
        IN  /\ prompt # <<>>
            /\ kind \in {"LearningPath", "Quote", "QA", "ProjectIdea", "Quiz",
                         "ResourceSummary"}
            /\ kind = "LearningPath" =>
                   /\ NamesProfile(prompt)
                   /\ IF widgets.style = <<>>
                      THEN Contains(prompt, StyleAny)
                      ELSE \A j \in 1..Len(widgets.style) :
                               Contains(prompt, widgets.style[j])
                   /\ IF widgets.goal = <<>>
                      THEN Contains(prompt, GoalJustToLearn)
                      ELSE Contains(prompt, widgets.goal)
            /\ kind \in {"QA", "ProjectIdea", "Quiz"} =>
                   /\ Contains(prompt, widgets.topic)
                   /\ Contains(prompt, widgets.level)
            /\ kind = "Quote" => prompt = QuotePrompt
            /\ kind = "ResourceSummary" => Contains(prompt, widgets.question)

\* a learning path prompt for 40 hours, without a style and without a goal
C8_Witness ==
    /\ pc = "generate"
    /\ Len(sent) = 1
    /\ sent[1].kind = "LearningPath"
    /\ widgets.hours = 40
    /\ widgets.style = <<>>
    /\ widgets.goal = <<>>
    /\ Contains(sent[1].prompt, <<"4","0"," ","h","r","s","/","w","e","e","k">>)

----------------------------------------------------------------------------
(* The claim about pomodoro_timer, under TimerSpec *)

StopRequested == Get(session_state, "timer_stop", FALSE)

\* pomodoro_timer has returned with timer_running False and the display 00:00,
\* and never sleeps more than duration*60 times
TimerEndsReset ==
    /\ timer.slept <= timer.duration * SecondsPerMinute
    /\ pc = "timer_returned" =>
           /\ session_state["timer_running"] = FALSE
           /\ session_state["timer_display"] = <<"0","0",":","0","0">>

\* a pass that starts with timer_stop True ends the countdown: no further
\* countdown value is written and no further second is slept
StopEndsCountdown ==
    (pc = "countdown" /\ StopRequested) =>
        /\ pc' = "timer_returned"
        /\ timer'.slept = timer.slept
        /\ session_state'["timer_display"] = <<"0","0",":","0","0">>

\* C9: the stop flag is read once per one-second pass; a pass that finds it set
\* ends the countdown without another countdown value, so a stop request made
\* during the countdown ends it within a pass; cancelled or run out, after at
\* most duration*60 passes, pomodoro_timer ends with timer_running False and
\* the display 00:00
C9_PolledStopAndReset ==
    /\ []TimerEndsReset
    /\ [][StopEndsCountdown]_vars
    /\ <>(pc = "timer_returned")

\* a countdown was stopped after some, and not all, of its seconds
C9_Witness ==
    /\ pc = "timer_returned"
    /\ StopRequested
    /\ timer.slept > 0
    /\ timer.slept < timer.duration * SecondsPerMinute

====
